---- MODULE Spec2Model ----
(***************************************************************************)
(* RetryAgentWorker: a retry layer on top of a router query engine.       *)
(* A task is driven step by step; every step queries the Router, appends  *)
(* the (question, answer) pair to the task's reasoning transcript and     *)
(* asks the Critic (an LLM program producing a ResponseEval) whether the  *)
(* answer has an error and what the next question should be.              *)
(***************************************************************************)
EXTENDS Integers, Sequences, FiniteSets, TLC

\* ---------------------------------------------------------------- bounds
\* largest configured max_iterations explored
MaxN == 2
\* cap on the number of steps explored for one task
MaxSteps == 3

\* questions a user can ask, an override can carry, the Critic can suggest
Questions == {"q1", "q2"}
\* answer texts the Router can return
Answers == {"a1", "a2"}
\* absent optional argument (Python None)
None == "None"
\* the Router's query raising instead of returning
RAISE == "RAISE"

\* query_engine_tools = [sql_tool] + vector_tools: the Router's handlers
QueryEngineTools == <<"sql_tool", "vector_tool_Toronto", "vector_tool_Berlin", "vector_tool_Tokyo">>

\* ResponseEval: the Critic's structured output
ResponseEval == [has_error : BOOLEAN, new_question : Questions, explanation : {"e"}]

VARIABLES worker, task, script, chatT, stepT, tasks, states, frame, agents, lists, calls

vars == <<worker, task, script, chatT, stepT, tasks, states, frame, agents, lists, calls>>

\* ------------------------------------------------- RetryAgentWorker code

\* _initialize_state: the state dict a task starts with
_initialize_state(task_input) == [count |-> 0, current_reasoning |-> <<>>]

\* the question a step sends to the Router: the override when given, the
\* task's input when the state has no "new_input" yet, state["new_input"]
\* otherwise
NewInputIgnoresOverride(state, task_input, input) ==
    IF "new_input" \notin DOMAIN state THEN task_input ELSE state.new_input

NewInputStickyOriginal(state, task_input, input) ==
    IF input # None THEN input ELSE task_input

new_input_of(state, task_input, input) ==
    IF input # None THEN input
    ELSE IF "new_input" \notin DOMAIN state THEN task_input
    ELSE state.new_input

\* state["current_reasoning"].extend([("user", new_input), ("assistant", str(response))])
ExtendAnswerOnly(reasoning, new_input, response) ==
    reasoning \o << <<"assistant", response>> >>

ExtendReplacesTranscript(reasoning, new_input, response) ==
    << <<"user", new_input>>, <<"assistant", response>> >>

extend_reasoning(reasoning, new_input, response) ==
    reasoning \o << <<"user", new_input>>, <<"assistant", response>> >>

\* is_done: True exactly when the Critic reports no error
IsDoneNever(response_eval) == FALSE

IsDoneInverted(response_eval) == response_eval.has_error

is_done_of(response_eval) == ~response_eval.has_error

\* the state dict after a step: transcript extended, state["new_input"]
\* overwritten with the Critic's suggestion; "count" is not touched
StateAfterCounting(state, new_input, response, response_eval) ==
    ("new_input" :> response_eval.new_question) @@
    [state EXCEPT !.current_reasoning = extend_reasoning(@, new_input, response),
                  !.count = @ + 1]

StateAfterKeepsPending(state, new_input, response, response_eval) ==
    IF "new_input" \in DOMAIN state
    THEN [state EXCEPT !.current_reasoning = extend_reasoning(@, new_input, response)]
    ELSE ("new_input" :> response_eval.new_question) @@
         [state EXCEPT !.current_reasoning = extend_reasoning(@, new_input, response)]

state_after(state, new_input, response, response_eval) ==
    ("new_input" :> response_eval.new_question) @@
    [state EXCEPT !.current_reasoning = extend_reasoning(@, new_input, response)]

\* _run_step with a Router that returns: (new state, AgentChatResponse, is_done)
_run_step(state, task_input, input, response, response_eval) ==
    LET new_input == new_input_of(state, task_input, input) IN
    [state    |-> state_after(state, new_input, response, response_eval),
     response |-> response,
     is_done  |-> is_done_of(response_eval),
     new_input |-> new_input]

\* get_chat_prompt_template: the system prompt, then one message per
\* transcript entry, USER for a "user" entry and ASSISTANT for any other
PromptLatestPairOnly(system_prompt, current_reasoning) ==
    LET n    == Len(current_reasoning)
        tail == SubSeq(current_reasoning, IF n > 2 THEN n - 1 ELSE 1, n) IN
    [i \in 1..(Len(tail) + 1) |->
        IF i = 1 THEN [role |-> "system", content |-> system_prompt]
        ELSE IF tail[i - 1][1] = "user"
             THEN [role |-> "user", content |-> tail[i - 1][2]]
             ELSE [role |-> "assistant", content |-> tail[i - 1][2]]]

PromptOnlyAssistantAsAssistant(system_prompt, current_reasoning) ==
    [i \in 1..(Len(current_reasoning) + 1) |->
        IF i = 1 THEN [role |-> "system", content |-> system_prompt]
        ELSE IF current_reasoning[i - 1][1] = "assistant"
             THEN [role |-> "assistant", content |-> current_reasoning[i - 1][2]]
             ELSE [role |-> "user", content |-> current_reasoning[i - 1][2]]]

get_chat_prompt_template(system_prompt, current_reasoning) ==
    [i \in 1..(Len(current_reasoning) + 1) |->
        IF i = 1 THEN [role |-> "system", content |-> system_prompt]
        ELSE IF current_reasoning[i - 1][1] = "user"
             THEN [role |-> "user", content |-> current_reasoning[i - 1][2]]
             ELSE [role |-> "assistant", content |-> current_reasoning[i - 1][2]]]

\* what a step leaves of the worker (self) and of the task's input: the
\* step reads self.prompt_str, self.llm, self.verbose, self._router_query_engine
\* and task.input and assigns none of them
StepOverwritesTaskInput(w, task_input, response_eval) ==
    [worker |-> w, task_input |-> response_eval.new_question]

self_and_task_after(w, task_input, response_eval) ==
    [worker |-> w, task_input |-> task_input]

\* ------------------------------------------------------- the task driver

\* a task handle that has not been created yet
NoTask ==
    [pc |-> "idle", mode |-> None, input |-> None, state |-> <<>>,
     steps |-> <<>>, routerCalls |-> 0, criticCalls |-> 0,
     output |-> None, is_last |-> FALSE, result |-> None, raised |-> FALSE]

\* create_task(question): a running task whose state is _initialize_state
create_task(question, mode) ==
    [NoTask EXCEPT !.pc = "running", !.mode = mode, !.input = question,
                   !.state = _initialize_state(question)]

\* run_step(task, input) when the Router returns: the step output carries
\* the response and is_last = is_done; the step state is synced to the task
run_step(t, input, response, response_eval) ==
    LET r == _run_step(t.state, t.input, input, response, response_eval) IN
    [t EXCEPT !.state = r.state,
              !.steps = @ \o << [input |-> input, new_input |-> r.new_input,
                                 response |-> response, eval |-> response_eval,
                                 is_done |-> r.is_done,
                                 pending |-> IF "new_input" \in DOMAIN t.state
                                             THEN t.state.new_input ELSE None] >>,
              !.routerCalls = @ + 1,
              !.criticCalls = @ + 1,
              !.output = r.response,
              !.is_last = r.is_done,
              !.pc = IF r.is_done THEN "last" ELSE "running"]

\* run_step(task, input) when the Router's query raises: nothing of the
\* step's body after the query runs and the exception leaves the step
run_step_raises(t, input) ==
    [t EXCEPT !.routerCalls = @ + 1, !.raised = TRUE, !.pc = "failed"]

\* finalize_response(task): the output of the last step is the result
finalize_response(t) ==
    [t EXCEPT !.pc = "done", !.result = t.output]

\* agent.chat(question): create the task, run steps without an override
\* until a step is reported last, then finalize the response.  replies is
\* the sequence of Router outcomes and Critic verdicts the run meets.
RECURSIVE chat_loop(_, _)
chat_loop(t, replies) ==
    IF t.pc # "running" \/ Len(t.steps) >= Len(replies) THEN t
    ELSE LET r == replies[Len(t.steps) + 1] IN
         IF r.response = RAISE THEN run_step_raises(t, None)
         ELSE chat_loop(run_step(t, None, r.response, r.eval), replies)

ChatSingleStep(question, replies) ==
    LET t == create_task(question, "chat") IN
    IF Len(replies) = 0 THEN t
    ELSE IF replies[1].response = RAISE THEN run_step_raises(t, None)
    ELSE finalize_response(run_step(t, None, replies[1].response, replies[1].eval))

chat(question, replies) ==
    LET t == chat_loop(create_task(question, "chat"), replies) IN
    IF t.pc = "last" THEN finalize_response(t) ELSE t

\* ------------------------------------------------------------ behaviours

Init ==
    /\ worker \in [max_iterations : 1..MaxN, prompt_str : {"DEFAULT_PROMPT_STR"},
                  tools : {QueryEngineTools}]
    /\ task = NoTask
    /\ script = <<>>
    /\ chatT = NoTask
    /\ stepT = NoTask
    /\ tasks = <<>>
    /\ states = <<>>
    /\ frame = <<>>
    /\ agents = <<>>
    /\ lists = <<>>
    /\ calls = <<>>

\* agent.chat(question) / agent.create_task(question)
CreateTask ==
    /\ task.pc = "idle"
    /\ \E q \in Questions, m \in {"chat", "step"} :
          task' = create_task(q, m)
    /\ UNCHANGED <<worker, script, chatT, stepT, tasks, states, frame, agents, lists, calls>>

\* one step of the task; agent.chat passes no override
RunStep ==
    /\ task.pc = "running"
    /\ Len(task.steps) < MaxSteps
    /\ \E input \in Questions \cup {None}, response \in Answers, ev \in ResponseEval :
          /\ task.mode = "chat" => input = None
          /\ task' = [run_step(task, input, response, ev) EXCEPT
                         !.input = self_and_task_after(worker, task.input, ev).task_input]
          /\ worker' = self_and_task_after(worker, task.input, ev).worker
    /\ UNCHANGED <<script, chatT, stepT, tasks, states, frame, agents, lists, calls>>

\* one step of the task in which the Router's query raises
RunStepRaises ==
    /\ task.pc = "running"
    /\ Len(task.steps) < MaxSteps
    /\ \E input \in Questions \cup {None} :
          /\ task.mode = "chat" => input = None
          /\ task' = run_step_raises(task, input)
    /\ UNCHANGED <<worker, script, chatT, stepT, tasks, states, frame, agents, lists, calls>>

\* the last step was reported: the response is finalized
FinalizeResponse ==
    /\ task.pc = "last"
    /\ task' = finalize_response(task)
    /\ UNCHANGED <<worker, script, chatT, stepT, tasks, states, frame, agents, lists, calls>>

Next == CreateTask \/ RunStep \/ RunStepRaises \/ FinalizeResponse

Spec == Init /\ [][Next]_vars

\* ------------------------------------------------------------ properties

\* number of completed steps of a task
Completed(t) == Len(t.steps)

\* the first step whose Critic verdict is has_error = false, 0 when none
FirstAccepted(t) ==
    IF \E i \in 1..Completed(t) : ~t.steps[i].eval.has_error
    THEN CHOOSE i \in 1..Completed(t) :
            /\ ~t.steps[i].eval.has_error
            /\ \A j \in 1..(i - 1) : t.steps[j].eval.has_error
    ELSE 0

\* C1: a task run to completion by agent.chat invokes the Router at most
\* max_iterations times.
C1_RouterCallsWithinBudget ==
    task.mode = "chat" => task.routerCalls <= worker.max_iterations

\* C2: when the Critic first reports has_error = false at step k the task
\* stops there: the step is reported last, no further Router or Critic call
\* is made and the answer returned is the Router's answer of step k; as long
\* as every verdict so far is has_error = true the task is not stopped.
C2_StopsAtFirstAcceptedAnswer ==
    LET k == FirstAccepted(task) IN
    /\ k # 0 =>
          /\ Completed(task) = k
          /\ task.routerCalls = k
          /\ task.criticCalls = k
          /\ task.is_last
          /\ task.pc \in {"last", "done"}
          /\ task.output = task.steps[k].response
          /\ task.pc = "done" => task.result = task.steps[k].response
    /\ (k = 0 /\ Completed(task) > 0 /\ ~task.raised) =>
          /\ task.pc = "running"
          /\ ~task.is_last

C2_Witness ==
    /\ task.mode = "chat"
    /\ task.pc = "done"
    /\ Completed(task) = 2
    /\ task.steps[1].eval.has_error
    /\ ~task.steps[2].eval.has_error
    /\ task.steps[1].response # task.steps[2].response

\* C3: when the Critic reports has_error = true on every step, a task run
\* to completion ends after exactly max_iterations steps and returns the
\* answer of that step.
C3_ExhaustionAfterBudget ==
    (/\ task.mode = "chat"
     /\ FirstAccepted(task) = 0
     /\ ~task.raised
     /\ Completed(task) >= worker.max_iterations) =>
        /\ Completed(task) = worker.max_iterations
        /\ task.pc \in {"last", "done"}
        /\ task.pc = "done" => task.result = task.steps[worker.max_iterations].response

\* C4: after k completed steps the transcript has exactly 2k entries; entry
\* 2i-1 is the user question sent to the Router in step i and entry 2i the
\* assistant answer of step i.
C4_TranscriptShape ==
    task.pc # "idle" =>
        /\ Len(task.state.current_reasoning) = 2 * Completed(task)
        /\ \A i \in 1..Completed(task) :
              /\ task.state.current_reasoning[2 * i - 1] = <<"user", task.steps[i].new_input>>
              /\ task.state.current_reasoning[2 * i] = <<"assistant", task.steps[i].response>>

C4_Witness ==
    /\ Completed(task) = 3
    /\ Len(task.state.current_reasoning) = 6
    /\ task.state.current_reasoning[5][1] = "user"
    /\ task.state.current_reasoning[6][1] = "assistant"

\* C5: a step run with an override question sends the override to the
\* Router and records it as the user entry; the step after it, run without
\* an override, uses the Critic's rewrite of the overridden step.
C5_OverrideForThatStepOnly ==
    \A i \in 1..Completed(task) :
        task.steps[i].input # None =>
            /\ task.steps[i].new_input = task.steps[i].input
            /\ task.state.current_reasoning[2 * i - 1] = <<"user", task.steps[i].input>>
            /\ (i < Completed(task) /\ task.steps[i + 1].input = None) =>
                  task.steps[i + 1].new_input = task.steps[i].eval.new_question

C5_Witness ==
    /\ Completed(task) = 3
    /\ task.steps[2].input # None
    /\ task.steps[2].input # task.steps[2].pending
    /\ task.steps[2].input # task.input
    /\ task.steps[3].input = None
    /\ task.steps[3].new_input # task.steps[2].input

\* C6: after every step the pending question of the task state is the
\* new_question of that step's Critique result, and after a step flagged
\* erroneous the next step run without an override sends exactly it.
C6_PendingQuestionIsCriticRewrite ==
    /\ Completed(task) > 0 =>
          /\ "new_input" \in DOMAIN task.state
          /\ task.state.new_input = task.steps[Completed(task)].eval.new_question
    /\ \A i \in 1..(Completed(task) - 1) :
          (task.steps[i].eval.has_error /\ task.steps[i + 1].input = None) =>
              /\ task.steps[i + 1].pending = task.steps[i].eval.new_question
              /\ task.steps[i + 1].new_input = task.steps[i].eval.new_question

C6_Witness ==
    /\ Completed(task) = 3
    /\ task.steps[2].eval.has_error
    /\ task.steps[3].input = None
    /\ task.steps[2].eval.new_question # task.steps[1].eval.new_question
    /\ task.steps[3].new_input = task.steps[2].eval.new_question
    /\ task.state.new_input # task.steps[2].eval.new_question

\* C7: a failure of the Router in a step is absorbed: it is recorded as the
\* step's assistant answer, the Critic is invoked on it and no exception
\* reaches the caller.
C7_RouterFailureAbsorbed ==
    /\ ~task.raised
    /\ task.pc # "failed"
    /\ task.routerCalls = Completed(task)
    /\ task.criticCalls = task.routerCalls

\* C8: when the budget is exhausted with the Critic still reporting an
\* error the loop ends and hands back the last answer as a best-effort
\* result, flagged as the end of the run.
C8_ExhaustionEndsLoop ==
    \A n \in 1..Completed(task) :
        (/\ task.mode = "chat"
         /\ n = worker.max_iterations
         /\ \A i \in 1..n : task.steps[i].eval.has_error) =>
            /\ task.is_last
            /\ task.output = task.steps[n].response

\* C9: the iteration counter of the task state never decreases from one
\* step to the next and never exceeds max_iterations.
C9_CountMonotoneAndBounded ==
    /\ [](task.pc # "idle" => task.state.count <= worker.max_iterations)
    /\ [][(task.pc # "idle" /\ task'.pc # "idle") =>
              task'.state.count >= task.state.count]_vars

C9_Witness ==
    /\ Completed(task) = 3
    /\ task.state.count = 0
    /\ worker.max_iterations = 2

\* ---------------------------------- step-wise against run-to-completion

\* the runs a task can meet: a Router outcome and a Critic verdict per step
Replies == [response : Answers \cup {RAISE}, eval : ResponseEval]

InitEquiv ==
    /\ worker \in [max_iterations : {MaxN}, prompt_str : {"DEFAULT_PROMPT_STR"},
                  tools : {QueryEngineTools}]
    /\ task = NoTask
    /\ script \in [question : Questions, replies : [1..MaxSteps -> Replies]]
    /\ chatT = NoTask
    /\ stepT = NoTask
    /\ tasks = <<>>
    /\ states = <<>>
    /\ frame = <<>>
    /\ agents = <<>>
    /\ lists = <<>>
    /\ calls = <<>>

\* response = agent.chat(question)
EqChat ==
    /\ chatT.pc = "idle"
    /\ chatT' = chat(script.question, script.replies)
    /\ UNCHANGED <<worker, task, script, stepT, tasks, states, frame, agents, lists, calls>>

\* task = agent.create_task(question)
EqCreateTask ==
    /\ stepT.pc = "idle"
    /\ stepT' = create_task(script.question, "step")
    /\ UNCHANGED <<worker, task, script, chatT, tasks, states, frame, agents, lists, calls>>

\* step_output = agent.run_step(task.task_id)
EqRunStep ==
    /\ stepT.pc = "running"
    /\ Len(stepT.steps) < MaxSteps
    /\ LET r == script.replies[Len(stepT.steps) + 1] IN
          /\ r.response # RAISE
          /\ stepT' = run_step(stepT, None, r.response, r.eval)
    /\ UNCHANGED <<worker, task, script, chatT, tasks, states, frame, agents, lists, calls>>

\* agent.run_step(task.task_id) in which the Router's query raises
EqRunStepRaises ==
    /\ stepT.pc = "running"
    /\ Len(stepT.steps) < MaxSteps
    /\ script.replies[Len(stepT.steps) + 1].response = RAISE
    /\ stepT' = run_step_raises(stepT, None)
    /\ UNCHANGED <<worker, task, script, chatT, tasks, states, frame, agents, lists, calls>>

\* if step_output.is_last: response = agent.finalize_response(task.task_id)
EqFinalizeResponse ==
    /\ stepT.pc = "last"
    /\ stepT' = finalize_response(stepT)
    /\ UNCHANGED <<worker, task, script, chatT, tasks, states, frame, agents, lists, calls>>

NextEquiv == EqChat \/ EqCreateTask \/ EqRunStep \/ EqRunStepRaises \/ EqFinalizeResponse

SpecEquiv == InitEquiv /\ [][NextEquiv]_vars

C12_StepFrame ==
    [][task.pc = "running" =>
          /\ worker' = worker
          /\ task'.input = task.input
          /\ DOMAIN task'.state \subseteq DOMAIN task.state \cup {"new_input"}
          /\ \A k \in DOMAIN task.state \ {"current_reasoning", "new_input"} :
                task'.state[k] = task.state[k]]_vars

C12_Witness ==
    /\ Completed(task) = 3
    /\ worker.tools = QueryEngineTools
    /\ task.state.new_input # task.input
    /\ task.steps[1].new_input = task.input
    /\ task.state.count = 0

\* C13: the output of every step is the Router answer obtained in that step,
\* which is the last assistant entry of the transcript, and the step's
\* is_done flag is true exactly when its Critique result has no error.
C13_StepOutputAndFlag ==
    Completed(task) > 0 =>
        LET k  == Completed(task)
            cr == task.state.current_reasoning IN
        /\ task.output = task.steps[k].response
        /\ cr[Len(cr)] = <<"assistant", task.output>>
        /\ task.is_last = ~task.steps[k].eval.has_error
        /\ \A i \in 1..k : task.steps[i].is_done = ~task.steps[i].eval.has_error

C13_Witness ==
    /\ Completed(task) = 2
    /\ task.steps[1].eval.has_error
    /\ ~task.steps[1].is_done
    /\ ~task.steps[2].eval.has_error
    /\ task.steps[2].is_done
    /\ task.output = task.steps[2].response
    /\ task.output # task.steps[1].response

\* C19: the first step run without an override sends the task's original
\* question to the Router; a later step run without an override sends the
\* Critic's most recent rewrite, not the original question.
C19_OriginalThenRewrite ==
    \A i \in 1..Completed(task) :
        task.steps[i].input = None =>
            task.steps[i].new_input =
                IF i = 1 THEN task.input ELSE task.steps[i - 1].eval.new_question

C19_Witness ==
    /\ Completed(task) = 3
    /\ \A i \in 1..3 : task.steps[i].input = None
    /\ task.steps[1].new_input = task.input
    /\ task.steps[2].new_input # task.input
    /\ task.steps[3].new_input # task.steps[2].new_input

\* C20: the counter stored in the task state, state['count'], equals the
\* number of completed steps, so the transcript has 2 x count entries.
C20_CountIsCompletedSteps ==
    task.pc # "idle" =>
        /\ task.state.count = Completed(task)
        /\ Len(task.state.current_reasoning) = 2 * task.state.count

\* C21: the transcript of a task is append-only: the transcript before a
\* step is a prefix of the transcript after it, with or without an override
\* question, and whether or not the Router's query raises.
C21_TranscriptAppendOnly ==
    [][task.pc = "running" =>
          LET old == task.state.current_reasoning
              new == task'.state.current_reasoning IN
          /\ Len(old) <= Len(new)
          /\ \A i \in 1..Len(old) : new[i] = old[i]]_vars

C21_Witness ==
    /\ Completed(task) = 3
    /\ task.steps[2].input # None
    /\ task.steps[3].input = None
    /\ Len(task.state.current_reasoning) = 6
    /\ task.state.current_reasoning[1] = <<"user", task.input>>
    /\ task.state.current_reasoning[3] = <<"user", task.steps[2].input>>
    /\ task.state.current_reasoning[3][2] # task.steps[1].eval.new_question
    /\ task.state.current_reasoning[2] # task.state.current_reasoning[4]

\* ------------------------------------------- two tasks on the same worker

\* cap on the number of steps explored for each of two interleaved tasks
TwoMaxSteps == 2

\* the tasks created on the worker
TaskIds == {1, 2}

\* the dict _initialize_state returns is a new object on every call (and so
\* is the list in it): the state object of a task is its own
SharedStateObject(task_id) == 0

state_object(task_id) == task_id

\* the state dict a task's steps read and write
StateOf(i) == states[state_object(i)]

InitTwo ==
    /\ worker \in [max_iterations : {MaxN}, prompt_str : {"DEFAULT_PROMPT_STR"},
                  tools : {QueryEngineTools}]
    /\ task = NoTask
    /\ script = <<>>
    /\ chatT = NoTask
    /\ stepT = NoTask
    /\ tasks = [i \in TaskIds |-> NoTask]
    /\ states = <<>>
    /\ frame = <<>>
    /\ agents = <<>>
    /\ lists = <<>>
    /\ calls = <<>>

\* agent.create_task(question) for task i
TwoCreateTask(i) ==
    /\ tasks[i].pc = "idle"
    /\ \E q \in Questions :
          /\ tasks' = [tasks EXCEPT ![i] = create_task(q, "step")]
          /\ states' = (state_object(i) :> _initialize_state(q)) @@ states
    /\ UNCHANGED <<worker, task, script, chatT, stepT, frame, agents, lists, calls>>

\* agent.run_step(task_id) for task i: the step works on the task's state dict
TwoRunStep(i) ==
    /\ tasks[i].pc = "running"
    /\ Len(tasks[i].steps) < TwoMaxSteps
    /\ \E response \in Answers, ev \in ResponseEval :
          LET t == run_step([tasks[i] EXCEPT !.state = StateOf(i)], None, response, ev) IN
          /\ tasks' = [tasks EXCEPT ![i] = t]
          /\ states' = [states EXCEPT ![state_object(i)] = t.state]
    /\ UNCHANGED <<worker, task, script, chatT, stepT, frame, agents, lists, calls>>

\* agent.run_step(task_id) for task i in which the Router's query raises
TwoRunStepRaises(i) ==
    /\ tasks[i].pc = "running"
    /\ Len(tasks[i].steps) < TwoMaxSteps
    /\ tasks' = [tasks EXCEPT ![i] = run_step_raises(tasks[i], None)]
    /\ UNCHANGED <<worker, task, script, chatT, stepT, states, frame, agents, lists, calls>>

\* agent.finalize_response(task_id) for task i
TwoFinalizeResponse(i) ==
    /\ tasks[i].pc = "last"
    /\ tasks' = [tasks EXCEPT ![i] = finalize_response(tasks[i])]
    /\ UNCHANGED <<worker, task, script, chatT, stepT, states, frame, agents, lists, calls>>

NextTwo ==
    \E i \in TaskIds :
        TwoCreateTask(i) \/ TwoRunStep(i) \/ TwoRunStepRaises(i) \/ TwoFinalizeResponse(i)

SpecTwo == InitTwo /\ [][NextTwo]_vars

\* the (user, assistant) pairs of a task's own completed steps, in order
OwnTranscript(t) ==
    [k \in 1..(2 * Len(t.steps)) |->
        IF k % 2 = 1 THEN <<"user", t.steps[(k + 1) \div 2].new_input>>
        ELSE <<"assistant", t.steps[k \div 2].response>>]

\* C11: for any interleaving of the steps of two tasks of one worker, the
\* transcript of each task holds exactly the questions and answers of its
\* own steps and its pending question is the one its own last step wrote.
C11_TaskStateNotShared ==
    \A i \in TaskIds :
        tasks[i].pc # "idle" =>
            /\ StateOf(i).current_reasoning = OwnTranscript(tasks[i])
            /\ Completed(tasks[i]) = 0 => "new_input" \notin DOMAIN StateOf(i)
            /\ Completed(tasks[i]) > 0 =>
                  /\ "new_input" \in DOMAIN StateOf(i)
                  /\ StateOf(i).new_input =
                        tasks[i].steps[Completed(tasks[i])].eval.new_question

C11_Witness ==
    /\ Completed(tasks[1]) = 2
    /\ Completed(tasks[2]) = 1
    /\ tasks[1].pc = "running"
    /\ tasks[2].pc = "running"
    /\ StateOf(1).current_reasoning[1] # StateOf(2).current_reasoning[1]
    /\ StateOf(1).new_input # StateOf(2).new_input

\* ------------------------------------------- the statements within a step

\* the statement _run_step executes after a given one: resolve the input
\* (196-202), query the Router (208), extend the transcript (211-213), run
\* the Critic program (217-228), set is_done and new_input and return (229-241)
NextStmtCriticFirst(stmt) ==
    CASE stmt = "resolve" -> "critic"
      [] stmt = "critic"  -> "query"
      [] stmt = "query"   -> "extend"
      [] stmt = "extend"  -> "return"

next_stmt(stmt) ==
    CASE stmt = "resolve" -> "query"
      [] stmt = "query"   -> "extend"
      [] stmt = "extend"  -> "critic"
      [] stmt = "critic"  -> "return"

\* no step is being executed
NoFrame ==
    [pc |-> "idle", input |-> None, new_input |-> None, response |-> None,
     eval |-> None, reasoning |-> <<>>, prompt |-> <<>>, events |-> <<>>]

InitSteps ==
    /\ worker \in [max_iterations : {MaxN}, prompt_str : {"DEFAULT_PROMPT_STR"},
                  tools : {QueryEngineTools}]
    /\ task = NoTask
    /\ script = <<>>
    /\ chatT = NoTask
    /\ stepT = NoTask
    /\ tasks = <<>>
    /\ states = <<>>
    /\ frame = NoFrame
    /\ agents = <<>>
    /\ lists = <<>>
    /\ calls = <<>>

\* agent.create_task(question)
StCreateTask ==
    /\ task.pc = "idle"
    /\ \E q \in Questions : task' = create_task(q, "step")
    /\ UNCHANGED <<worker, script, chatT, stepT, tasks, states, frame, agents, lists, calls>>

\* agent.run_step(task_id, input) enters _run_step and resolves the input
StResolve ==
    /\ task.pc = "running"
    /\ frame.pc = "idle"
    /\ Len(task.steps) < MaxSteps
    /\ \E input \in Questions \cup {None} :
          frame' = [NoFrame EXCEPT !.pc = next_stmt("resolve"),
                                   !.input = input,
                                   !.new_input = new_input_of(task.state, task.input, input),
                                   !.reasoning = task.state.current_reasoning]
    /\ UNCHANGED <<worker, task, script, chatT, stepT, tasks, states, agents, lists, calls>>

\* response = self._router_query_engine.query(new_input)
StQuery ==
    /\ frame.pc = "query"
    /\ \E response \in Answers :
          frame' = [frame EXCEPT !.pc = next_stmt("query"),
                                 !.response = response,
                                 !.events = @ \o <<"router">>]
    /\ UNCHANGED <<worker, task, script, chatT, stepT, tasks, states, agents, lists, calls>>

\* the Router's query raises: the step is left at once
StQueryRaises ==
    /\ frame.pc = "query"
    /\ frame' = [frame EXCEPT !.pc = "idle", !.events = @ \o <<"router">>]
    /\ task' = run_step_raises(task, frame.input)
    /\ UNCHANGED <<worker, script, chatT, stepT, tasks, states, agents, lists, calls>>

\* state["current_reasoning"].extend(...)
StExtend ==
    /\ frame.pc = "extend"
    /\ frame' = [frame EXCEPT !.pc = next_stmt("extend"),
                              !.reasoning = extend_reasoning(@, frame.new_input, frame.response),
                              !.events = @ \o <<"append">>]
    /\ UNCHANGED <<worker, task, script, chatT, stepT, tasks, states, agents, lists, calls>>

\* chat_prompt_tmpl = get_chat_prompt_template(self.prompt_str,
\* state["current_reasoning"]); response_eval = llm_program(...)
StCritic ==
    /\ frame.pc = "critic"
    /\ \E ev \in ResponseEval :
          frame' = [frame EXCEPT !.pc = next_stmt("critic"),
                                 !.eval = ev,
                                 !.prompt = get_chat_prompt_template(worker.prompt_str,
                                                                     frame.reasoning),
                                 !.events = @ \o <<"critic">>]
    /\ UNCHANGED <<worker, task, script, chatT, stepT, tasks, states, agents, lists, calls>>

\* is_done and state["new_input"] are set and the step returns
StReturn ==
    /\ frame.pc = "return"
    /\ task' = run_step(task, frame.input, frame.response, frame.eval)
    /\ frame' = [frame EXCEPT !.pc = "idle"]
    /\ UNCHANGED <<worker, script, chatT, stepT, tasks, states, agents, lists, calls>>

\* agent.finalize_response(task_id)
StFinalizeResponse ==
    /\ task.pc = "last"
    /\ frame.pc = "idle"
    /\ task' = finalize_response(task)
    /\ UNCHANGED <<worker, script, chatT, stepT, tasks, states, frame, agents, lists, calls>>

NextSteps ==
    \/ StCreateTask \/ StResolve \/ StQuery \/ StQueryRaises
    \/ StExtend \/ StCritic \/ StReturn \/ StFinalizeResponse

SpecSteps == InitSteps /\ [][NextSteps]_vars

\* s is an initial segment of t
IsPrefix(s, t) == Len(s) <= Len(t) /\ SubSeq(t, 1, Len(s)) = s

\* C17: within every step the Router is queried first, then the (question,
\* answer) pair is appended, then the Critic is run; a step that returns has
\* made exactly one Router call and exactly one Critic call.
C17_RouterAppendCritic ==
    /\ IsPrefix(frame.events, <<"router", "append", "critic">>)
    /\ frame.pc = "return" => frame.events = <<"router", "append", "critic">>
    /\ (frame.pc = "idle" /\ Completed(task) > 0 /\ ~task.raised) =>
          frame.events = <<"router", "append", "critic">>
    /\ frame.pc \in {"critic", "return"} =>
          frame.reasoning = task.state.current_reasoning
                               \o << <<"user", frame.new_input>>, <<"assistant", frame.response>> >>
    /\ frame.pc = "idle" => (task.routerCalls = Completed(task) + (IF task.raised THEN 1 ELSE 0)
                             /\ task.criticCalls = Completed(task))

C17_Witness ==
    /\ frame.pc = "return"
    /\ Completed(task) = 1
    /\ frame.events = <<"router", "append", "critic">>
    /\ Len(frame.reasoning) = 4

\* C18: the Critic of step k is given the whole transcript of the task up
\* to and including step k's own pair: the system prompt followed by all 2k
\* entries in order.
C18_CriticSeesFullTranscript ==
    frame.pc = "return" =>
        LET k    == Completed(task) + 1
            full == OwnTranscript(task)
                       \o << <<"user", frame.new_input>>, <<"assistant", frame.response>> >> IN
        /\ Len(frame.prompt) = 2 * k + 1
        /\ frame.prompt[1] = [role |-> "system", content |-> worker.prompt_str]
        /\ \A i \in 1..(2 * k) :
              frame.prompt[i + 1] = [role |-> full[i][1], content |-> full[i][2]]

C18_Witness ==
    /\ frame.pc = "return"
    /\ Completed(task) = 2
    /\ Len(frame.prompt) = 7
    /\ frame.prompt[2].content # frame.prompt[6].content
    /\ frame.prompt[3].content # frame.prompt[7].content

\* ------------------------------------------- constructing the worker

\* cap on the length of the tool list handed to the constructor
MaxTools == 2
\* cap on the steps run on a constructed worker
CtorMaxSteps == 1

\* the tool objects a caller can hand to RetryAgentWorker(tools, ...)
ToolObjects ==
    { [name |-> "sql_tool", class |-> "QueryEngineTool"],
      [name |-> "vector_tool_Toronto", class |-> "QueryEngineTool"],
      [name |-> "multiply", class |-> "FunctionTool"] }

ToolLists == UNION {[1..k -> ToolObjects] : k \in 1..MaxTools}

\* isinstance(tool, QueryEngineTool)
isinstance(tool, cls) == tool.class = cls

\* for tool in tools: if not isinstance(tool, QueryEngineTool): raise
\* ValueError(...).  The name of the tool that raised, or None.
ValidateFirstToolOnly(tools, i) ==
    IF Len(tools) = 0 \/ isinstance(tools[1], "QueryEngineTool") THEN None
    ELSE tools[1].name

RECURSIVE validate_tools(_, _)
validate_tools(tools, i) ==
    IF i > Len(tools) THEN None
    ELSE IF ~isinstance(tools[i], "QueryEngineTool") THEN tools[i].name
    ELSE validate_tools(tools, i + 1)

\* no worker object
NoWorker == [constructed |-> FALSE]

\* RetryAgentWorker.__init__(tools, **kwargs): the exception raised, the
\* Routers built on the way and the worker object, if one comes to exist
RetryAgentWorker_init(tools, kwargs) ==
    LET bad == validate_tools(tools, 1) IN
    IF bad # None
    THEN [raised |-> "ValueError", tool |-> bad, routers |-> <<>>, worker |-> NoWorker]
    ELSE LET router == [query_engine_tools |-> tools] IN
         [raised |-> None, tool |-> None, routers |-> <<router>>,
          worker |-> [constructed |-> TRUE,
                      tools |-> tools,
                      max_iterations |-> kwargs.max_iterations,
                      prompt_str |-> "DEFAULT_PROMPT_STR",
                      _router_query_engine |-> router]]

\* no constructor call yet
NoCtor == [called |-> FALSE]

InitCtor ==
    /\ worker = NoWorker
    /\ task = NoTask
    /\ script = <<>>
    /\ chatT = NoTask
    /\ stepT = NoTask
    /\ tasks = <<>>
    /\ states = <<>>
    /\ frame = NoCtor
    /\ agents = <<>>
    /\ lists = <<>>
    /\ calls = <<>>

\* agent_worker = RetryAgentWorker(tools, max_iterations=...)
CtorNew ==
    /\ ~worker.constructed
    /\ \E tools \in ToolLists, n \in 1..MaxN :
          LET r == RetryAgentWorker_init(tools, [max_iterations |-> n]) IN
          /\ worker' = r.worker
          /\ frame' = [called |-> TRUE, tools |-> tools, raised |-> r.raised,
                       tool |-> r.tool, routers |-> r.routers]
    /\ UNCHANGED <<task, script, chatT, stepT, tasks, states, agents, lists, calls>>

CtorCreateTask == worker.constructed /\ CreateTask

CtorRunStep == Len(task.steps) < CtorMaxSteps /\ RunStep

CtorRunStepRaises == Len(task.steps) < CtorMaxSteps /\ RunStepRaises

NextCtor == CtorNew \/ CtorCreateTask \/ CtorRunStep \/ CtorRunStepRaises \/ FinalizeResponse

SpecCtor == InitCtor /\ [][NextCtor]_vars

\* C22: a constructor call whose tool list holds a tool that is not a
\* QueryEngineTool raises ValueError, builds no Router and leaves no worker;
\* the Router of a worker that exists holds query-engine tools only.
C22_ConstructorRejectsOtherTools ==
    /\ frame.called =>
          ((\E i \in 1..Len(frame.tools) : frame.tools[i].class # "QueryEngineTool") =>
              /\ frame.raised = "ValueError"
              /\ frame.routers = <<>>
              /\ ~worker.constructed)
    /\ worker.constructed =>
          LET qet == worker._router_query_engine.query_engine_tools IN
          /\ qet = worker.tools
          /\ \A i \in 1..Len(qet) : qet[i].class = "QueryEngineTool"

C22_Witness ==
    /\ frame.called
    /\ Len(frame.tools) = 2
    /\ frame.tools[1].class = "QueryEngineTool"
    /\ frame.tools[2].class = "FunctionTool"
    /\ frame.raised = "ValueError"
    /\ frame.tool = "multiply"
    /\ ~worker.constructed

\* ------------------------------------- get_chat_prompt_template alone

\* cap on the length of the transcript handed to get_chat_prompt_template
MaxReasoning == 3

\* the (role, text) entries a transcript can hold
RawMsgs == {"user", "assistant", "tool"} \X {"t1", "t2"}

Reasonings == UNION {[1..k -> RawMsgs] : k \in 0..MaxReasoning}

SystemPrompts == {"DEFAULT_PROMPT_STR", "p2"}

\* a call of get_chat_prompt_template about to be made
InitPrompt ==
    /\ worker = NoWorker
    /\ task = NoTask
    /\ script = <<>>
    /\ chatT = NoTask
    /\ stepT = NoTask
    /\ tasks = <<>>
    /\ states = <<>>
    /\ frame \in [pc : {"call"}, system_prompt : SystemPrompts,
                   current_reasoning : Reasonings, messages : {<<>>}]
    /\ agents = <<>>
    /\ lists = <<>>
    /\ calls = <<>>

\* get_chat_prompt_template(system_prompt, current_reasoning)
PromptCall ==
    /\ frame.pc = "call"
    /\ frame' = [frame EXCEPT
                    !.pc = "returned",
                    !.messages = get_chat_prompt_template(frame.system_prompt,
                                                          frame.current_reasoning)]
    /\ UNCHANGED <<worker, task, script, chatT, stepT, tasks, states, agents, lists, calls>>

NextPrompt == PromptCall

SpecPrompt == InitPrompt /\ [][NextPrompt]_vars

\* C26: get_chat_prompt_template returns 1 + (number of transcript
\* entries) messages: the system prompt, then one message per entry in
\* transcript order with the entry's text, USER for a 'user' entry and
\* ASSISTANT for an entry of any other role.
C26_PromptShape ==
    frame.pc = "returned" =>
        LET cr == frame.current_reasoning
            ms == frame.messages IN
        /\ Len(ms) = 1 + Len(cr)
        /\ ms[1].role = "system"
        /\ ms[1].content = frame.system_prompt
        /\ \A i \in 1..Len(cr) :
              /\ ms[i + 1].content = cr[i][2]
              /\ cr[i][1] = "user" => ms[i + 1].role = "user"
              /\ cr[i][1] # "user" => ms[i + 1].role = "assistant"

C26_Witness ==
    /\ frame.pc = "returned"
    /\ Len(frame.current_reasoning) = 3
    /\ frame.current_reasoning[1] = <<"tool", "t1">>
    /\ frame.current_reasoning[2] = <<"user", "t2">>
    /\ frame.current_reasoning[3] = <<"assistant", "t1">>
    /\ frame.messages[2].role = "assistant"
    /\ frame.messages[3].role = "user"

\* ------------------------------------------------------ YourOpenAIAgent

\* cap on the number of chat calls explored
OAMaxChats == 2
\* largest number of tool calls in one LLM reply
MaxToolCalls == 2

\* the agents constructed without an explicit chat_history
AgentIds == {1, 2}
\* the messages a user sends
Messages == {"Hi"}
\* agent = YourOpenAIAgent(tools=[multiply_tool, add_tool])
ToolNames == {"multiply", "add"}
\* the function names an LLM reply can carry
CalledNames == ToolNames \cup {"unknown"}
\* the arguments of a tool call, after json.loads
ToolArgs == [a : {3}, b : {4}]
\* the contents of the LLM's follow-up replies of a chat, in order
FollowContents == <<"c2", "c3", "c4", "c5">>

\* the list object the default argument chat_history = [] denotes: it is
\* built once, when __init__ is defined
default_chat_history == 0

\* str(output) of a non-negative integer
Digit(d) == <<"0", "1", "2", "3", "4", "5", "6", "7", "8", "9">>[d + 1]

RECURSIVE Str(_)
Str(n) == IF n < 10 THEN <<Digit(n)>> ELSE Str(n \div 10) \o <<Digit(n % 10)>>

\* multiply(a, b) and add(a, b)
multiply(a, b) == a * b

add(a, b) == a + b

\* tool(**json.loads(function_call.arguments))
ToolOutputFirstTool(name, args) == multiply(args.a, args.b)

tool_output(name, args) ==
    IF name = "multiply" THEN multiply(args.a, args.b) ELSE add(args.a, args.b)

\* ChatMessage(role="user", content=message)
user_message(message) == [role |-> "user", content |-> message]

\* the tool calls an LLM reply can list: ids are unique within a reply
\* a reply asks for each function at most once
ToolCallLists ==
    {l \in UNION {[1..k -> [name : CalledNames, arguments : ToolArgs]] :
                      k \in 0..MaxToolCalls} :
        \A i, j \in 1..Len(l) : i # j => l[i].name # l[j].name}

tool_calls_of(l) == [i \in 1..Len(l) |-> [id |-> i, function |-> l[i]]]

\* the message of the first LLM reply of a chat
ai_message_of(l) ==
    [role |-> "assistant", content |-> "c1",
     additional_kwargs |-> [tool_calls |-> tool_calls_of(l)]]

\* the message of a follow-up LLM reply
followup_message(c) ==
    [role |-> "assistant", content |-> c, additional_kwargs |-> [tool_calls |-> <<>>]]

\* _call_function for a tool of the registry
_call_function(tool_call) ==
    [role |-> "tool",
     name |-> tool_call.function.name,
     content |-> Str(tool_output(tool_call.function.name, tool_call.function.arguments)),
     additional_kwargs |-> [tool_call_id |-> tool_call.id,
                            name |-> tool_call.function.name]]

\* for tool_call in tool_calls: call the function, append its message, call
\* the LLM on the history, append its reply.  A name that is not in the
\* registry raises at self._tools[function_call.name].
ToolLoopFirstOnly(st, tools, tool_calls, followups, i) ==
    IF Len(tool_calls) = 0 THEN st
    ELSE IF tool_calls[1].function.name \notin tools THEN [st EXCEPT !.raised = TRUE]
    ELSE LET fm == [role |-> "tool", name |-> tool_calls[1].function.name,
                    content |-> <<"0">>,
                    additional_kwargs |-> [tool_call_id |-> tool_calls[1].id,
                                           name |-> tool_calls[1].function.name]]
             h  == st.chat_history \o <<fm>>
             ai == [role |-> "assistant", content |-> followups[1],
                    additional_kwargs |-> [tool_calls |-> <<>>]] IN
         [chat_history |-> h \o <<ai>>,
          events |-> st.events \o << [op |-> "tool", call |-> tool_calls[1]],
                                     [op |-> "llm", tools |-> FALSE, chat_history |-> h] >>,
          ai_message |-> ai,
          raised |-> FALSE]

ToolLoopRollsBack(st, tools, tool_calls, followups, i) ==
    IF Len(tool_calls) = 0 THEN st
    ELSE IF tool_calls[1].function.name \notin tools
    THEN [st EXCEPT !.raised = TRUE,
                    !.chat_history = SubSeq(@, 1, Len(@) - 2)]
    ELSE LET fm == [role |-> "tool", name |-> tool_calls[1].function.name,
                    content |-> <<"0">>,
                    additional_kwargs |-> [tool_call_id |-> tool_calls[1].id,
                                           name |-> tool_calls[1].function.name]]
             h  == st.chat_history \o <<fm>>
             ai == [role |-> "assistant", content |-> followups[1],
                    additional_kwargs |-> [tool_calls |-> <<>>]] IN
         [chat_history |-> h \o <<ai>>,
          events |-> st.events \o << [op |-> "tool", call |-> tool_calls[1]],
                                     [op |-> "llm", tools |-> FALSE, chat_history |-> h] >>,
          ai_message |-> ai,
          raised |-> Len(tool_calls) > 1 /\ tool_calls[2].function.name \notin tools]

RECURSIVE tool_loop(_, _, _, _, _)
tool_loop(st, tools, tool_calls, followups, i) ==
    IF i > Len(tool_calls) THEN st
    ELSE IF tool_calls[i].function.name \notin tools THEN [st EXCEPT !.raised = TRUE]
    ELSE LET fm == _call_function(tool_calls[i])
             h  == st.chat_history \o <<fm>>
             ai == followup_message(followups[i]) IN
         tool_loop([chat_history |-> h \o <<ai>>,
                    events |-> st.events \o << [op |-> "tool", call |-> tool_calls[i]],
                                               [op |-> "llm", tools |-> FALSE, chat_history |-> h] >>,
                    ai_message |-> ai,
                    raised |-> FALSE],
                   tools, tool_calls, followups, i + 1)


ChatReplacesHistory(chat_history, tools, message, l, followups) ==
    LET h1 == <<user_message(message)>>
        ai == ai_message_of(l) IN
    tool_loop([chat_history |-> h1 \o <<ai>>,
               events |-> << [op |-> "llm", tools |-> TRUE, chat_history |-> h1] >>,
               ai_message |-> ai,
               raised |-> FALSE],
              tools, ai.additional_kwargs.tool_calls, followups, 1)

\* YourOpenAIAgent.chat on the list chat_history: the list after the call,
\* the LLM and tool calls made, the last ai_message and whether it raised
YourOpenAIAgent_chat(chat_history, tools, message, l, followups) ==
    LET h1 == chat_history \o <<user_message(message)>>
        ai == ai_message_of(l) IN
    tool_loop([chat_history |-> h1 \o <<ai>>,
               events |-> << [op |-> "llm", tools |-> TRUE, chat_history |-> h1] >>,
               ai_message |-> ai,
               raised |-> FALSE],
              tools, ai.additional_kwargs.tool_calls, followups, 1)

\* the list objects the constructed agents (and the default argument) hold
Referenced(ags) ==
    {default_chat_history} \cup {ags[a].chat_history : a \in {b \in AgentIds : ags[b].constructed}}

\* a new list object: [] evaluated at run time
new_list(heap) ==
    CHOOSE r \in 1..(Cardinality(AgentIds) + 1) :
        /\ r \notin DOMAIN heap
        /\ \A q \in 1..(r - 1) : q \in DOMAIN heap

\* an agent that has not been constructed
NoAgent ==
    [constructed |-> FALSE, chat_history |-> default_chat_history, tools |-> {},
     own |-> <<>>, after_reset |-> -1]

\* YourOpenAIAgent.__init__ without chat_history: self._chat_history is the
\* default argument's list
YourOpenAIAgent_init(S, a, tools) ==
    [S EXCEPT !.agents[a] = [constructed |-> TRUE, chat_history |-> default_chat_history,
                             tools |-> tools, own |-> <<>>, after_reset |-> -1]]

\* YourOpenAIAgent.reset: self._chat_history = []
ResetToDefaultList(S, a) ==
    [S EXCEPT !.agents[a].chat_history = default_chat_history,
              !.agents[a].own = <<>>,
              !.agents[a].after_reset = 0]

YourOpenAIAgent_reset(S, a) ==
    LET others == [S.agents EXCEPT ![a].constructed = FALSE]
        kept   == [r \in DOMAIN S.lists \cap Referenced(others) |-> S.lists[r]]
        r      == new_list(kept) IN
    [agents |-> [S.agents EXCEPT ![a].chat_history = r,
                                 ![a].own = <<>>,
                                 ![a].after_reset = 0],
     lists  |-> (r :> <<>>) @@ kept]

\* the history an agent's next chat starts from
HistoryOf(a) == lists[agents[a].chat_history]

InitOA ==
    /\ worker \in [max_iterations : {MaxN}, prompt_str : {"DEFAULT_PROMPT_STR"},
                  tools : {QueryEngineTools}]
    /\ task = NoTask
    /\ script = <<>>
    /\ chatT = NoTask
    /\ stepT = NoTask
    /\ tasks = <<>>
    /\ states = <<>>
    /\ frame = <<>>
    /\ agents = [a \in AgentIds |-> NoAgent]
    /\ lists = (default_chat_history :> <<>>)
    /\ calls = [n |-> 0, last |-> <<>>]

\* agent = YourOpenAIAgent(tools=[multiply_tool, add_tool])
OANew(a) ==
    /\ ~agents[a].constructed
    /\ LET S == YourOpenAIAgent_init([agents |-> agents, lists |-> lists], a, ToolNames) IN
          /\ agents' = S.agents
          /\ lists' = S.lists
    /\ UNCHANGED <<worker, task, script, chatT, stepT, tasks, states, frame, calls>>

\* agent.reset()
OAReset(a) ==
    /\ agents[a].constructed
    /\ LET S == YourOpenAIAgent_reset([agents |-> agents, lists |-> lists], a) IN
          /\ agents' = S.agents
          /\ lists' = S.lists
    /\ UNCHANGED <<worker, task, script, chatT, stepT, tasks, states, frame, calls>>

\* agent.chat(message): the appends go to the list object the agent holds
OAChat(a) ==
    /\ agents[a].constructed
    /\ calls.n < OAMaxChats
    /\ \E message \in Messages, l \in ToolCallLists :
          LET followups == [i \in 1..Len(l) |-> FollowContents[i]] IN
          LET before == HistoryOf(a)
              r == YourOpenAIAgent_chat(before, agents[a].tools, message, l, followups)
              appended == SubSeq(r.chat_history, Len(before) + 1, Len(r.chat_history)) IN
          /\ lists' = [lists EXCEPT ![agents[a].chat_history] = r.chat_history]
          /\ agents' = [agents EXCEPT ![a].own = @ \o appended,
                                      ![a].after_reset = IF @ < 0 THEN @ ELSE IF @ = 0 THEN 1 ELSE 2]
          /\ calls' = [n |-> calls.n + 1,
                       last |-> [agent |-> a,
                                 message |-> message,
                                 tool_calls |-> tool_calls_of(l),
                                 before |-> before,
                                 after |-> r.chat_history,
                                 events |-> r.events,
                                 raised |-> r.raised,
                                 result |-> IF r.raised THEN RAISE ELSE r.ai_message.content]]
    /\ UNCHANGED <<worker, task, script, chatT, stepT, tasks, states, frame>>

NextOA == \E a \in AgentIds : OANew(a) \/ OAReset(a) \/ OAChat(a)

SpecOA == InitOA /\ [][NextOA]_vars

\* the tool calls executed in a chat, in execution order
ExecutedCalls(events) ==
    LET te == SelectSeq(events, LAMBDA e : e.op = "tool") IN
    [i \in 1..Len(te) |-> te[i].call]

C15_ResetEmptiesHistory ==
    \A a \in AgentIds :
        agents[a].constructed =>
            /\ agents[a].after_reset = 0 => HistoryOf(a) = <<>>
            /\ (calls.n > 0 /\ agents[a].after_reset = 1 /\ calls.last.agent = a) =>
                  calls.last.events[1].chat_history = <<user_message(calls.last.message)>>
            /\ LET once == YourOpenAIAgent_reset([agents |-> agents, lists |-> lists], a) IN
                  /\ once.lists[once.agents[a].chat_history] = <<>>
                  /\ YourOpenAIAgent_reset(once, a) = once

C15_Witness ==
    /\ calls.n = 2
    /\ calls.last.agent = 1
    /\ agents[1].after_reset = 1
    /\ ~agents[2].constructed
    /\ calls.last.before = <<>>
    /\ Len(HistoryOf(1)) = 4

\* C16: of two agents constructed without a chat_history argument, a chat
\* on one never changes the history of the other: the history of an agent
\* holds the messages of its own chats only.
C16_SingleOwnerHistory ==
    \A a \in AgentIds :
        agents[a].constructed => HistoryOf(a) = agents[a].own

\* C23: whenever a chat calls the LLM again after an assistant message
\* with tool calls, the history passed to that call holds a tool message
\* for every tool call of that assistant message, however many there are.
C23_FollowUpSeesEveryToolAnswer ==
    calls.n > 0 =>
        LET ev == calls.last.events
            tc == calls.last.tool_calls
            n0 == Len(calls.last.before) IN
        \A e \in 2..Len(ev) :
            ev[e].op = "llm" =>
                \A c \in 1..Len(tc) :
                    \E m \in (n0 + 1)..Len(ev[e].chat_history) :
                        /\ ev[e].chat_history[m].role = "tool"
                        /\ ev[e].chat_history[m].additional_kwargs.tool_call_id = tc[c].id

\* the messages a chat appended: user, assistant, then (tool, assistant)
\* for the first n of its tool calls
TurnShape(h, n0, message, tc, n) ==
    /\ Len(h) = n0 + 2 + 2 * n
    /\ h[n0 + 1] = user_message(message)
    /\ h[n0 + 2].role = "assistant"
    /\ h[n0 + 2].additional_kwargs.tool_calls = tc
    /\ \A i \in 1..n :
          /\ h[n0 + 1 + 2 * i].role = "tool"
          /\ h[n0 + 1 + 2 * i].additional_kwargs.tool_call_id = tc[i].id
          /\ h[n0 + 2 + 2 * i].role = "assistant"

\* every non-empty history starts with a user message and ends with an
\* assistant message
UserFirstAssistantLast ==
    \A r \in DOMAIN lists :
        Len(lists[r]) > 0 =>
            /\ lists[r][1].role = "user"
            /\ lists[r][Len(lists[r])].role = "assistant"

UnknownCalls(tc, tools) == {i \in 1..Len(tc) : tc[i].function.name \notin tools}

\* the smallest element of a non-empty set of numbers
Min(S) == CHOOSE x \in S : \A y \in S : x <= y

\* C25: a chat whose reply names a tool that is not in the registry raises
\* at the first such tool call: the earlier tool calls, and no later one,
\* were executed, and the history keeps the user message, the assistant
\* message and the (tool, assistant) pairs of the earlier calls.
C25_UnknownToolRaisesMidway ==
    calls.n > 0 =>
        LET tc  == calls.last.tool_calls
            bad == UnknownCalls(tc, agents[calls.last.agent].tools) IN
        /\ calls.last.raised <=> bad # {}
        /\ bad # {} =>
              /\ calls.last.result = RAISE
              /\ ExecutedCalls(calls.last.events) = SubSeq(tc, 1, Min(bad) - 1)
              /\ IsPrefix(calls.last.before, calls.last.after)
              /\ TurnShape(calls.last.after, Len(calls.last.before), calls.last.message,
                           tc, Min(bad) - 1)
              /\ calls.last.after # calls.last.before

C25_Witness ==
    /\ calls.n = 2
    /\ calls.last.raised
    /\ Len(calls.last.before) = 2
    /\ Len(calls.last.tool_calls) = 2
    /\ calls.last.tool_calls[1].function.name = "multiply"
    /\ calls.last.tool_calls[2].function.name = "unknown"
    /\ Len(calls.last.after) = 6
    /\ HistoryOf(calls.last.agent) = calls.last.after

\* the number a string of decimal digits denotes
RECURSIVE DecimalValue(_)
DecimalValue(ds) ==
    IF Len(ds) = 0 THEN 0
    ELSE 10 * DecimalValue(SubSeq(ds, 1, Len(ds) - 1))
         + (CHOOSE d \in 0..9 : Digit(d) = ds[Len(ds)])

\* C27: every tool message a chat appends has role 'tool', carries the id
\* and the function name of the tool call it answers, and its content is
\* the string form of the output of the registry tool of that name.
C27_ToolMessageFields ==
    calls.n > 0 =>
        LET tc == calls.last.tool_calls
            h  == calls.last.after
            n0 == Len(calls.last.before)
            ex == ExecutedCalls(calls.last.events)
            appended == SubSeq(h, n0 + 1, Len(h)) IN
        /\ Len(SelectSeq(appended, LAMBDA msg : msg.role = "tool")) = Len(ex)
        /\ \A i \in 1..Len(ex) :
              LET msg == h[n0 + 1 + 2 * i]
                  fn  == tc[i].function IN
              /\ msg.role = "tool"
              /\ msg.additional_kwargs.tool_call_id = tc[i].id
              /\ msg.additional_kwargs.name = fn.name
              /\ msg.name = fn.name
              /\ Len(msg.content) > 0
              /\ Len(msg.content) > 1 => msg.content[1] # "0"
              /\ fn.name = "multiply" =>
                    DecimalValue(msg.content) = fn.arguments.a * fn.arguments.b
              /\ fn.name = "add" =>
                    DecimalValue(msg.content) = fn.arguments.a + fn.arguments.b

C27_Witness ==
    /\ calls.n > 0
    /\ Len(calls.last.tool_calls) = 2
    /\ ~calls.last.raised
    /\ calls.last.tool_calls[1].function.name = "add"
    /\ calls.last.tool_calls[2].function.name = "multiply"
    /\ calls.last.after[Len(calls.last.before) + 3].content = <<"7">>
    /\ calls.last.after[Len(calls.last.before) + 5].content = <<"1", "2">>
    /\ calls.last.after[Len(calls.last.before) + 5].additional_kwargs.tool_call_id = 2

====
